---- MODULE Spec2Model ----
(***************************************************************************)
(* The chat-completion pipeline of wiki-chat-app:                          *)
(*   api/app/api/completions.py         stream_chat / generate_stream      *)
(*   api/app/services/provider_client.py ProviderClient.chat_stream        *)
(*   api/app/services/wikipedia_tool.py  WikipediaSearchTool               *)
(*   api/app/services/conversation_store.py ConversationStore              *)
(* One chat turn is the run of the async generator chat_stream, driven by  *)
(* generate_stream.  Every yield of the generator is one step.  The        *)
(* provider (cohere chat) and the Wikipedia API are black boxes whose      *)
(* answers are drawn from small sets.                                      *)
(*                                                                         *)
(* Representation.  An Optional[str] is a sequence of length 0 (None) or 1.*)
(* A text that the code slices is a sequence of one-character strings; a   *)
(* fixed sentence of the code is a one-element sequence holding it.        *)
(*                                                                         *)
(* Specifications.  Spec: one turn under every provider answer.            *)
(* SpecMemory: consecutive turns.  SpecLookup: one turn under every answer *)
(* of Wikipedia.  SpecStore: the store under one client and a clock.       *)
(* SpecThreads: the store under two threads, statement by statement.       *)
(* SpecLoop: two turns as tasks of one event loop.  SpecDisconnect: a turn *)
(* whose client goes away.  SpecSession: turns and the shutdown handler.   *)
(***************************************************************************)
EXTENDS Integers, Sequences, FiniteSets, TLC

VARIABLES
    pc,               \* position of chat_stream: idle, start, initial, tool_loop,
                      \* search, final, retry, fallback, stream, finish, except, terminated
    req,              \* the ChatRequest of the running turn
    chat_id,          \* chat_stream's local chat_id
    messages,         \* chat_stream's local message list
    response,         \* the initial provider response
    tool_idx,         \* index of the tool_call the for loop is at
    tool_params,      \* the parsed arguments of the tool_call being served
    combined_results, \* the rendered lookup blocks so far
    final_params,     \* the parameters of the final provider call
    contents,         \* the content blocks being streamed
    blk, off,         \* block and offset of the next chunk
    exc,              \* the exception caught by chat_stream's handler
    events,           \* what chat_stream has yielded, in order
    frames,           \* what generate_stream has relayed, in order
    io,               \* the provider calls and lookups made, in order
    uuids,            \* how many ids uuid4 has minted
    turns,            \* how many turns have been started
    prev,             \* the turns that ended with done: chat id, user message, reply
    conversations,    \* ConversationStore._conversations
    now,              \* time.time()
    calls,            \* the last two calls of the store's client, with what they returned
    th,               \* the threads that call the store: position, arguments, locals
    lock,             \* the thread that holds ConversationStore._lock, 0 when it is free
    completed,        \* per id, the turns of the add_message calls that have returned
                      \* since the id's record was last created
    task,             \* the chat turns running as tasks of one event loop
    loop,             \* the task the event loop's thread is running, 0 when it runs none
    session,          \* WikipediaSearchTool.session: none, open or closed
    created,          \* how many aiohttp.ClientSession objects have been constructed
    shut,             \* the application's shutdown handler has run
    completion,       \* the frame of create_completion and of complete
    held              \* the list the store's client got from its last get_messages

vars == <<pc, req, chat_id, messages, response, tool_idx, tool_params,
          combined_results, final_params, contents, blk, off, exc, events,
          frames, io, uuids, turns, prev, conversations, now, calls, th, lock, completed,
          task, loop, session, created, shut, completion, held>>

\* The locals and logs of a chat turn, and the state around the store.
turnVars == <<pc, req, chat_id, messages, response, tool_idx, tool_params,
              combined_results, final_params, contents, blk, off, exc, events,
              frames, io, uuids, turns, prev>>
threadVars == <<th, lock, completed>>
loopVars == <<task, loop>>
lookupVars == <<session, created, shut>>
storeVars == <<conversations, now, calls, threadVars>>

----------------------------------------------------------------------------
(* Bounds of the model. *)

MaxToolCalls == 2
MaxTurns == 2
MaxStored == 3
MaxClock == 2

(* Constants of the program. *)

chunk_size == 10
default_limit == 3
ttl_hours == 24
extract_cut == 300
ttl_seconds == ttl_hours * 3600

----------------------------------------------------------------------------
(* Values. *)

None == <<>>
Some(v) == <<v>>
\* Python truthiness of an Optional[str]: None and "" are falsy.
Truthy(opt) == opt # None /\ opt[1] # ""

Min(a, b) == IF a < b THEN a ELSE b

Alphabet == <<"a", "b", "c", "d", "e", "f", "g", "h", "i", "j", "k", "l", "m",
              "n", "o", "p", "q", "r", "s", "t", "u", "v", "w", "x", "y", "z">>
Text(n) == SubSeq(Alphabet, 1, n)

\* uuid.uuid4(): a fresh id, different from every id a client supplies.
Uuid(n) == <<"uuid-1", "uuid-2", "uuid-3", "uuid-4">>[n]

----------------------------------------------------------------------------
(* Inputs. *)

ChatIds == {None, Some(""), Some("c1")}
Requests == [message : {"moon", "hi"}, chat_id : ChatIds, use_wikipedia : BOOLEAN]

\* A content block; text = <<>> stands for a block without a (truthy) text.
Block(n) == [text |-> Text(n)]
Contents == {<<>>, <<Block(0)>>, <<Block(4)>>, <<Block(10)>>, <<Block(23)>>,
             <<Block(0), Block(12), Block(4)>>}

\* tool_call.function.arguments as the provider sends it: a str, a dict, or None.
StrArg(s) == [kind |-> "str", raw |-> s]
DictArg(d) == [kind |-> "dict", val |-> d]
NoneArg == [kind |-> "none"]

\* Python values json.loads can return or the SDK can hand over.
PyDict(hasq, q, hasl, l) ==
    [t |-> "dict", has_query |-> hasq, query |-> q, has_limit |-> hasl, limit |-> l]
PyOther(t) == [t |-> t, has_query |-> FALSE, query |-> "", has_limit |-> FALSE, limit |-> 0]

RawObjQuery == "{\"query\": \"moon\"}"
RawObjQueryLimit == "{\"query\": \"apollo\", \"limit\": 9}"
RawObjEmpty == "{}"
RawNotJson == "moon landing"
RawNumber == "42"
RawList == "[1]"
RawQuoted == "\"moon\""
RawNull == "null"

Arguments == {StrArg(RawObjQuery), StrArg(RawObjQueryLimit), StrArg(RawObjEmpty),
              StrArg(RawNotJson), StrArg(RawNumber), StrArg(RawList),
              StrArg(RawQuoted), StrArg(RawNull), NoneArg,
              DictArg(PyDict(TRUE, "buzz", FALSE, 0))}

ToolCall(name, args) == [name |-> name, arguments |-> args]
ToolCalls == {ToolCall("wikipedia_search", a) : a \in Arguments}
                 \cup {ToolCall("calculator", StrArg(RawObjEmpty))}

RECURSIVE SeqsUpTo(_, _)
SeqsUpTo(S, n) ==
    IF n = 0 THEN {<<>>}
    ELSE LET shorter == SeqsUpTo(S, n - 1)
         IN shorter \cup {Append(s, x) : s \in {t \in shorter : Len(t) = n - 1}, x \in S}

\* What the provider can answer to the initial call.
InitialResponses ==
    {[content |-> c, tool_calls |-> <<>>] : c \in Contents}
      \cup {[content |-> <<Block(4)>>, tool_calls |-> tc] :
              tc \in SeqsUpTo(ToolCalls, MaxToolCalls) \ {<<>>}}
\* What it can answer to the final call (tool use disabled; a provider that
\* reports tool invocations anyway is covered: the code never reads them).
FinalResponses ==
    {[content |-> c, tool_calls |-> tc] : c \in Contents,
        tc \in {<<>>, <<ToolCall("wikipedia_search", StrArg(RawObjQuery))>>}}

NoResponse == [content |-> <<>>, tool_calls |-> <<>>]

\* What one session.get of a lookup meets at the Wikipedia API: a raise of
\* the transport, or a response with a status and a body.  json is "invalid"
\* (response.json() raises), "list" (valid JSON that is no object) or "object".
Raises(e) == [exc |-> e, status |-> 0, json |-> "invalid", hits |-> <<>>, pages |-> {}]
Http(status, json, hits, pages) ==
    [exc |-> "", status |-> status, json |-> json, hits |-> hits, pages |-> pages]

\* One entry of query.search in the phase-1 body.
\* chars is the length of the extract the phase-2 body has for the page.
Hit(pageid, title, chars) ==
    [has_pageid |-> TRUE, pageid |-> pageid, title |-> title, chars |-> chars]
HitWithoutPageid == [has_pageid |-> FALSE, pageid |-> 0, title |-> "Moon", chars |-> 0]
TwoHits == <<Hit(1, "Buzz Aldrin", 301), Hit(2, "Apollo 11", 300)>>

\* The answers to the two requests of one lookup.
Answers(first, second) == [first |-> first, second |-> second]
NoSecond == Raises("unreached")
NoHits == Answers(Http(200, "object", <<>>, {}), NoSecond)
TwoArticles == Answers(Http(200, "object", TwoHits, {}), Http(200, "object", <<>>, {1, 2}))

\* The failures of a lookup: in phase 1 ...
Phase1Failures ==
    {Answers(f, NoSecond) :
        f \in {Raises("ClientError"), Raises("TimeoutError"), Http(500, "invalid", <<>>, {}),
               Http(200, "invalid", <<>>, {}), Http(200, "list", <<>>, {}),
               Http(200, "object", <<HitWithoutPageid>>, {})}}
\* ... and in phase 2, after a phase 1 with two hits.
Phase2Failures ==
    {Answers(Http(200, "object", TwoHits, {}), s) :
        s \in {Raises("ClientError"), Raises("TimeoutError"), Http(503, "invalid", <<>>, {}),
               Http(200, "invalid", <<>>, {}), Http(200, "list", <<>>, {})}}
LookupFailures == Phase1Failures \cup Phase2Failures
\* Every answer of the model: the failures, no hit, hits with all or some pages.
LookupAnswers ==
    LookupFailures \cup {NoHits, TwoArticles,
        Answers(Http(200, "object", TwoHits, {}), Http(200, "object", <<>>, {2}))}

\* A result; its extract is modelled by its length.
Article(title, chars) ==
    [title |-> title, extract |-> chars, url |-> <<"fullurl", title>>]
\* The answers the full turn is run under; search gives the same for a failed
\* lookup as for one without hits, SpecLookup runs the failures one by one.
WikiOutcomes == {NoHits, TwoArticles}

----------------------------------------------------------------------------
(* WikipediaSearchTool *)

Returned(results) == [raised |-> "", results |-> results]
Raised(e) == [raised |-> e, results |-> <<>>]

\* Lines 112-125: one result; a page missing from the phase-2 body gives an
\* empty extract and the url built from the title.
result_of(hit, pages) ==
    IF hit.pageid \in pages THEN Article(hit.title, hit.chars)
    ELSE [title |-> hit.title, extract |-> 0, url |-> <<"wiki", hit.title>>]

\* Lines 46-136, the body of the try: what it returns or the exception that
\* leaves it.
search_body(w) ==
    IF w.first.exc # "" THEN Raised(w.first.exc)
    ELSE IF w.first.status # 200 THEN Returned(<<>>)
    ELSE IF w.first.json = "invalid" THEN Raised("ContentTypeError")
    ELSE IF w.first.json # "object" THEN Raised("AttributeError")
    ELSE IF w.first.hits = <<>> THEN Returned(<<>>)
    ELSE IF \E i \in 1..Len(w.first.hits) : ~w.first.hits[i].has_pageid THEN Raised("KeyError")
    ELSE IF w.second.exc # "" THEN Raised(w.second.exc)
    ELSE IF w.second.status # 200 THEN Returned(<<>>)
    ELSE IF w.second.json = "invalid" THEN Raised("ContentTypeError")
    ELSE IF w.second.json # "object" THEN Raised("AttributeError")
    ELSE Returned([i \in 1..Len(w.first.hits) |-> result_of(w.first.hits[i], w.second.pages)])

\* Except clauses that catch the timeout only.
search_catches_timeout_only(e) == e = "TimeoutError"

\* Lines 138-155: except asyncio.TimeoutError, then except Exception.
search_catches(e) == e = "TimeoutError" \/ e # ""

\* search(): the try with its except clauses, which return [].  Nothing before
\* the try raises for a query that is a str.
search(w) ==
    LET out == search_body(w)
    IN IF out.raised # "" /\ search_catches(out.raised) THEN Returned(<<>>) ELSE out

----------------------------------------------------------------------------
(* ProviderClient helpers *)

NoArticles == "No Wikipedia articles found for this query."
FallbackText == <<"I found information but couldn't format a response.">>
Primer == [role |-> "system", content |-> <<"You can call the function tool named 'wikipedia_search'">>]

\* An ellipsis already at 300 characters.
summary_ellipsis_at_cut(chars) ==
    <<[shown |-> Min(chars, extract_cut)]>> \o (IF chars >= extract_cut THEN <<"...">> ELSE <<>>)

\* Line 382: extract[:300], and '...' if len(extract) > 300.
summary(chars) ==
    <<[shown |-> Min(chars, extract_cut)]>> \o (IF chars > extract_cut THEN <<"...">> ELSE <<>>)

\* _format_wikipedia_results: the rendered block, as a sequence of pieces.
RECURSIVE format_entries(_, _)
format_entries(results, i) ==
    IF i > Len(results) THEN <<>>
    ELSE <<ToString(i), results[i].title, "Summary:">> \o summary(results[i].extract)
           \o <<"URL:", results[i].url>>
           \o format_entries(results, i + 1)

_format_wikipedia_results(results) ==
    IF results = <<>> THEN <<NoArticles>>
    ELSE <<"Wikipedia Search Results:">> \o format_entries(results, 1)

\* _build_chat_params: tools and strict_tools are set iff req.use_wikipedia.
_build_chat_params(r, msgs) ==
    [messages |-> msgs, tools |-> r.use_wikipedia, strict_tools |-> r.use_wikipedia,
     tool_choice |-> None]

\* A final call that keeps what _build_chat_params put in.
build_final_params_keeps_tools(r, msgs) ==
    [_build_chat_params(r, msgs) EXCEPT !.tool_choice = Some("none")]

\* The final call's parameters: tools popped, tool_choice "none".
build_final_params(r, msgs) ==
    [_build_chat_params(r, msgs) EXCEPT !.tools = FALSE, !.strict_tools = FALSE,
                                        !.tool_choice = Some("none")]

\* json.loads on the argument strings of the model.
json_loads(raw) ==
    CASE raw = RawObjQuery -> [ok |-> TRUE, val |-> PyDict(TRUE, "moon", FALSE, 0)]
      [] raw = RawObjQueryLimit -> [ok |-> TRUE, val |-> PyDict(TRUE, "apollo", TRUE, 9)]
      [] raw = RawObjEmpty -> [ok |-> TRUE, val |-> PyDict(FALSE, "", FALSE, 0)]
      [] raw = RawNumber -> [ok |-> TRUE, val |-> PyOther("int")]
      [] raw = RawList -> [ok |-> TRUE, val |-> PyOther("list")]
      [] raw = RawQuoted -> [ok |-> TRUE, val |-> PyOther("str")]
      [] raw = RawNull -> [ok |-> TRUE, val |-> PyOther("none")]
      [] OTHER -> [ok |-> FALSE, val |-> PyOther("none")]

\* The try/except around json.loads: a str is parsed, JSONDecodeError gives
\* {"query": str(arguments)}; anything that is not a str is taken as it is.
parse_arguments(args) ==
    CASE args.kind = "str" ->
            IF json_loads(args.raw).ok THEN json_loads(args.raw).val
            ELSE PyDict(TRUE, args.raw, FALSE, 0)
      [] args.kind = "dict" -> args.val
      [] args.kind = "none" -> PyOther("none")

\* tool_params.get(...) exists only on a dict.
has_get(params) == params.t = "dict"
get_query(params) == IF params.has_query THEN params.query ELSE ""
get_limit(params) == IF params.has_limit THEN params.limit ELSE default_limit

\* A slice that runs one character into the next chunk.
chunk_at_overlapping(text, o) == SubSeq(text, o + 1, Min(o + chunk_size + 1, Len(text)))

\* The chunks text[i:i+chunk_size] of one text from offset o on.
chunk_at(text, o) == SubSeq(text, o + 1, Min(o + chunk_size, Len(text)))

\* The first block from b on that has a text, or Len + 1.
RECURSIVE next_text_block(_, _)
next_text_block(cs, b) ==
    IF b > Len(cs) THEN b
    ELSE IF cs[b].text # <<>> THEN b ELSE next_text_block(cs, b + 1)

----------------------------------------------------------------------------
(* generate_stream: every item chat_stream yields is relayed as one frame. *)

sse(e) == [data |-> e]

\* chat_stream catches every Exception itself and nothing before its try
\* raises, so generate_stream's own except clause has nothing to relay.
Yield(e) ==
    /\ events' = Append(events, e)
    /\ frames' = Append(frames, sse(e))

ChatCall(params, ok) == [op |-> "chat", params |-> params, ok |-> ok, at |-> Len(events)]
SearchCall(q, l, w, out) ==
    [op |-> "search", query |-> q, limit |-> l, answers |-> w, raised |-> out.raised,
     n |-> Len(out.results), at |-> Len(events)]

----------------------------------------------------------------------------
(* ConversationStore: _conversations maps a chat id to its record. *)

\* A sweep that takes a record already at now - last_updated = ttl.
_cleanup_expired_at_ttl(convs, t) ==
    [id \in {i \in DOMAIN convs : ~(t - convs[i].last_updated >= ttl_seconds)} |-> convs[id]]

\* _cleanup_expired: the records with now - last_updated > ttl go.
\* A sweep that also stamps the records it keeps.
_cleanup_expired_touching(convs, t) ==
    [id \in {i \in DOMAIN convs : ~(t - convs[i].last_updated > ttl_seconds)} |->
        [convs[id] EXCEPT !.last_updated = t]]

_cleanup_expired(convs, t) ==
    [id \in {i \in DOMAIN convs : ~(t - convs[i].last_updated > ttl_seconds)} |-> convs[id]]

\* messages[-max_messages:]; -0 is 0, so the slice from -0 is the whole list.
last_messages(msgs, max_messages) ==
    IF max_messages = 0 THEN msgs
    ELSE SubSeq(msgs, Len(msgs) - max_messages + 1, Len(msgs))

\* An add_message that puts the turn in front of the stored ones.
add_message_in_front(convs, t, id, role, content) ==
    LET old == IF id \in DOMAIN convs THEN convs[id].messages ELSE <<>>
        rec == [messages |-> <<[role |-> role, content |-> content]>> \o old,
                last_updated |-> t]
    IN [i \in DOMAIN convs \cup {id} |-> IF i = id THEN rec ELSE convs[i]]

\* An add_message that keeps a window of the two newest turns.
add_message_window(convs, t, id, role, content) ==
    LET old == IF id \in DOMAIN convs THEN convs[id].messages ELSE <<>>
        all == Append(old, [role |-> role, content |-> content])
        rec == [messages |-> IF Len(all) > 2 THEN Tail(all) ELSE all, last_updated |-> t]
    IN [i \in DOMAIN convs \cup {id} |-> IF i = id THEN rec ELSE convs[i]]

\* add_message: the record is created when absent, the turn is appended at
\* the end and last_updated is set to the time of the call.
add_message(convs, t, id, role, content) ==
    LET old == IF id \in DOMAIN convs THEN convs[id].messages ELSE <<>>
        rec == [messages |-> Append(old, [role |-> role, content |-> content]),
                last_updated |-> t]
    IN [i \in DOMAIN convs \cup {id} |-> IF i = id THEN rec ELSE convs[i]]

\* Lines 34-39: the read of an id in the store as it is.
read_messages(convs, id, max_messages) ==
    IF id \notin DOMAIN convs THEN <<>>
    ELSE IF Len(convs[id].messages) > max_messages
           THEN last_messages(convs[id].messages, max_messages)
           ELSE convs[id].messages

\* A get_messages that reads the store as it was before the sweep.
get_messages_before_sweep(convs, t, id, max_messages) == read_messages(convs, id, max_messages)

\* get_messages: what it returns, read after the sweep.
get_messages(convs, t, id, max_messages) ==
    read_messages(_cleanup_expired(convs, t), id, max_messages)

\* with self._lock: the lock is taken when no thread holds it.  (No method
\* takes it a second time, so the count of the RLock stays at one.)
lock_never_held(l) == TRUE
lock_free(l) == l = 0

\* The threads that call the store, and what they call it with.  first tells
\* whether the id had no record when the call was made, absent is what line 17 found.
Threads == {1, 2}
ThreadIds == {"c1"}
Idle == [pc |-> "idle", op |-> "", chat_id |-> "", turn |-> [role |-> "", content |-> <<>>],
         max_messages |-> 0, first |-> FALSE, absent |-> FALSE, result |-> <<>>]

\* The chat turns that run at the same time in one process.
Tasks == {1, 2}

----------------------------------------------------------------------------
\* No completion request is being served.  raised is the exception first
\* raised inside complete, exc the one that leaves it.
NoResp == [output_text |-> <<>>, content |-> <<>>, text |-> <<>>, finish_reason |-> "missing"]
NoCompletion ==
    [pc |-> "idle", req |-> [prompt |-> "", model |-> <<>>], resp |-> NoResp,
     output |-> <<>>, raised |-> "", exc |-> "", status |-> 0, detail |-> <<>>]

\* The client holds no list.
NotHeld == [kind |-> "none", chat_id |-> "", returned |-> <<>>, seen |-> <<>>]

Init ==
    /\ pc = "idle"
    /\ req = [message |-> "moon", chat_id |-> None, use_wikipedia |-> FALSE]
    /\ chat_id = ""
    /\ messages = <<>>
    /\ response = NoResponse
    /\ tool_idx = 0
    /\ tool_params = PyOther("none")
    /\ combined_results = <<>>
    /\ final_params = build_final_params(req, <<>>)
    /\ contents = <<>>
    /\ blk = 0
    /\ off = 0
    /\ exc = ""
    /\ events = <<>>
    /\ frames = <<>>
    /\ io = <<>>
    /\ uuids = 0
    /\ turns = 0
    /\ prev = <<>>
    /\ conversations = <<>>
    /\ now = 0
    /\ calls = <<>>
    /\ th = [t \in Threads |-> Idle]
    /\ lock = 0
    /\ completed = [id \in ThreadIds |-> <<>>]
    /\ task = [t \in Tasks |-> [pc |-> "idle", chunks |-> 0, emitted |-> 0]]
    /\ loop = 0
    /\ session = "none"
    /\ created = 0
    /\ shut = FALSE
    /\ completion = NoCompletion
    /\ held = NotHeld

\* A request arrives: generate_stream starts iterating a new chat_stream
\* generator, whose locals are fresh.
start_turn(reqs) ==
    /\ ~shut
    /\ \E r \in reqs : req' = r
    /\ pc' = "start"
    /\ turns' = turns + 1
    /\ chat_id' = ""
    /\ messages' = <<>>
    /\ response' = NoResponse
    /\ tool_idx' = 0
    /\ tool_params' = PyOther("none")
    /\ combined_results' = <<>>
    /\ final_params' = build_final_params(req', <<>>)
    /\ contents' = <<>>
    /\ blk' = 0
    /\ off' = 0
    /\ exc' = ""
    /\ events' = <<>>
    /\ frames' = <<>>
    /\ io' = <<>>
    /\ UNCHANGED <<uuids, prev, storeVars, loopVars, lookupVars, completion, held>>

\* stream_chat: the first request after startup.
stream_chat(reqs) ==
    /\ pc = "idle"
    /\ start_turn(reqs)

\* stream_chat: a later request, after the turn before it has ended.
stream_chat_next(reqs) ==
    /\ pc = "terminated"
    /\ turns < MaxTurns
    /\ start_turn(reqs)

\* chat_stream up to its first yield: the id is resolved or minted.
yield_chat_id ==
    /\ pc = "start"
    /\ IF Truthy(req.chat_id)
         THEN chat_id' = req.chat_id[1] /\ uuids' = uuids
         ELSE chat_id' = Uuid(uuids + 1) /\ uuids' = uuids + 1
    /\ Yield([type |-> "chat_id", chat_id |-> chat_id'])
    /\ pc' = "initial"
    /\ UNCHANGED <<req, messages, response, tool_idx, tool_params, combined_results,
                   final_params, contents, blk, off, exc, io, turns, prev, storeVars, loopVars, lookupVars, completion, held>>

\* Lines 238-248: the message list of the initial call.
\* The primer in front of every turn.
initial_messages_always_primed(r) ==
    <<Primer, [role |-> "user", content |-> <<r.message>>]>>

initial_messages(r) ==
    (IF r.use_wikipedia THEN <<Primer>> ELSE <<>>)
        \o <<[role |-> "user", content |-> <<r.message>>]>>

\* An initial call that is made again after a raise.
on_initial_failure_retry == "initial"

\* Where a raise of the initial call lands: in chat_stream's except clause.
on_initial_failure == "except"

\* Entering the streaming loops with the answer's content blocks.  Only the
\* tool path has the else branch that emits the fallback text.
begin_stream(cs, tool_path) ==
    /\ contents' = cs
    /\ off' = 0
    /\ blk' = next_text_block(cs, 1)
    /\ pc' = IF tool_path /\ cs = <<>> THEN "fallback"
             ELSE IF blk' > Len(cs) THEN "finish" ELSE "stream"

\* Lines 238-256: build the messages, call the provider once, branch.
initial_completion(responses) ==
    /\ pc = "initial"
    /\ messages' = initial_messages(req)
    /\ \/ /\ io' = Append(io, ChatCall(_build_chat_params(req, messages'), FALSE))
          /\ exc' = "provider error"
          /\ pc' = on_initial_failure
          /\ UNCHANGED <<response, tool_idx, combined_results, contents, blk, off>>
       \/ \E r \in responses :
            /\ io' = Append(io, ChatCall(_build_chat_params(req, messages'), TRUE))
            /\ response' = r
            /\ exc' = exc
            /\ IF r.tool_calls # <<>>
                 THEN /\ pc' = "tool_loop"
                      /\ tool_idx' = 1
                      /\ combined_results' = <<>>
                      /\ UNCHANGED <<contents, blk, off>>
                 ELSE /\ begin_stream(r.content, FALSE)
                      /\ UNCHANGED <<tool_idx, combined_results>>
    /\ UNCHANGED <<req, chat_id, tool_params, final_params, events, frames, uuids,
                   turns, prev, storeVars, loopVars, lookupVars, completion, held>>

\* Line 260: a tool_call that does not name wikipedia_search is passed over.
skip_tool_call ==
    /\ pc = "tool_loop"
    /\ tool_idx <= Len(response.tool_calls)
    /\ response.tool_calls[tool_idx].name # "wikipedia_search"
    /\ tool_idx' = tool_idx + 1
    /\ UNCHANGED <<pc, req, chat_id, messages, response, tool_params, combined_results,
                   final_params, contents, blk, off, exc, events, frames, io, uuids,
                   turns, prev, storeVars, loopVars, lookupVars, completion, held>>

\* Lines 260-270: parse the arguments, read the query, yield the tool event.
\* tool_params.get on anything but a dict raises AttributeError.
tool_call_begin ==
    /\ pc = "tool_loop"
    /\ tool_idx <= Len(response.tool_calls)
    /\ response.tool_calls[tool_idx].name = "wikipedia_search"
    /\ tool_params' = parse_arguments(response.tool_calls[tool_idx].arguments)
    /\ IF has_get(tool_params')
         THEN /\ Yield([type |-> "tool", query |-> get_query(tool_params')])
              /\ pc' = "search"
              /\ exc' = exc
         ELSE /\ exc' = "AttributeError"
              /\ pc' = "except"
              /\ UNCHANGED <<events, frames>>
    /\ UNCHANGED <<req, chat_id, messages, response, tool_idx, combined_results,
                   final_params, contents, blk, off, io, uuids, turns, prev, storeVars, loopVars, lookupVars, completion, held>>

\* _get_session: how many sessions the call constructs.
_get_session(s) == IF s \in {"none", "closed"} THEN 1 ELSE 0

\* Lines 281-289: the lookup and the rendering of its results.
wikipedia_search(outcomes) ==
    /\ pc = "search"
    /\ \E outcome \in outcomes :
         LET out == search(outcome)
         IN /\ io' = Append(io, SearchCall(get_query(tool_params), get_limit(tool_params),
                                           outcome, out))
            /\ IF out.raised = ""
                 THEN /\ combined_results' =
                           combined_results \o _format_wikipedia_results(out.results) \o <<"\n">>
                      /\ tool_idx' = tool_idx + 1
                      /\ pc' = "tool_loop"
                      /\ exc' = exc
                 ELSE /\ exc' = out.raised
                      /\ pc' = "except"
                      /\ UNCHANGED <<combined_results, tool_idx>>
    /\ session' = "open"
    /\ created' = created + _get_session(session)
    /\ UNCHANGED <<req, chat_id, messages, response, tool_params, final_params, contents,
                   blk, off, events, frames, uuids, turns, prev, storeVars, loopVars, shut,
                   completion, held>>

\* str.strip() on the pieces: the line breaks at both ends go.
RECURSIVE strip(_)
strip(s) ==
    IF s = <<>> THEN s
    ELSE IF Head(s) = "\n" THEN strip(Tail(s))
    ELSE IF s[Len(s)] = "\n" THEN strip(SubSeq(s, 1, Len(s) - 1))
    ELSE s

\* Lines 292-298: the synthesized context message.
context_message(combined) ==
    [role |-> "system",
     content |-> <<"Relevant information from Wikipedia (use as context):">>
                   \o strip(combined)
                   \o <<"Please answer the user's last question directly using this context. Do not call any tools.">>]

\* Lines 291-306: inject the context and make the final call.
final_completion(responses) ==
    /\ pc = "tool_loop"
    /\ tool_idx > Len(response.tool_calls)
    /\ messages' = Append(messages, context_message(combined_results))
    /\ final_params' = build_final_params(req, messages')
    /\ \/ /\ io' = Append(io, ChatCall(final_params', FALSE))
          /\ pc' = "retry"
          /\ UNCHANGED <<contents, blk, off>>
       \/ \E r \in responses :
            /\ io' = Append(io, ChatCall(final_params', TRUE))
            /\ begin_stream(r.content, TRUE)
    /\ UNCHANGED <<req, chat_id, response, tool_idx, tool_params, combined_results, exc,
                   events, frames, uuids, turns, prev, storeVars, loopVars, lookupVars, completion, held>>

\* A handler that logs the first failure and gives up without the second call.
final_retry_gives_up(responses) ==
    /\ pc = "retry"
    /\ exc' = "provider error"
    /\ pc' = "except"
    /\ UNCHANGED <<req, chat_id, messages, response, tool_idx, tool_params,
                   combined_results, final_params, contents, blk, off, events, frames,
                   io, uuids, turns, prev, storeVars, loopVars, lookupVars, completion, held>>

\* A retry that is itself retried.
on_retry_failure_retry == "retry"

\* Where a raise of the retry lands: it is not caught by the inner handler
\* and reaches the outer except clause.
on_retry_failure == "except"

\* Lines 307-313: the one retry, with the same final_params.
final_retry(responses) ==
    /\ pc = "retry"
    /\ \/ /\ io' = Append(io, ChatCall(final_params, FALSE))
          /\ exc' = "provider error"
          /\ pc' = on_retry_failure
          /\ UNCHANGED <<contents, blk, off>>
       \/ \E r \in responses :
            /\ io' = Append(io, ChatCall(final_params, TRUE))
            /\ exc' = exc
            /\ begin_stream(r.content, TRUE)
    /\ UNCHANGED <<req, chat_id, messages, response, tool_idx, tool_params,
                   combined_results, final_params, events, frames, uuids, turns, prev,
                   storeVars, loopVars, lookupVars, completion, held>>

\* Lines 320-328 and 336-345: one chunk of the current block, then the pacing sleep.
stream_chunk ==
    /\ pc = "stream"
    /\ Yield([type |-> "text", text |-> chunk_at(contents[blk].text, off)])
    /\ IF off + chunk_size < Len(contents[blk].text)
         THEN /\ off' = off + chunk_size
              /\ UNCHANGED <<blk, pc>>
         ELSE /\ off' = 0
              /\ blk' = next_text_block(contents, blk + 1)
              /\ pc' = IF blk' > Len(contents) THEN "finish" ELSE "stream"
    /\ UNCHANGED <<req, chat_id, messages, response, tool_idx, tool_params,
                   combined_results, final_params, contents, exc, io, uuids, turns, prev,
                   storeVars, loopVars, lookupVars, completion, held>>

\* Lines 329-331: the tool path's fallback when the final response has no content.
fallback_text ==
    /\ pc = "fallback"
    /\ Yield([type |-> "text", text |-> FallbackText])
    /\ pc' = "finish"
    /\ UNCHANGED <<req, chat_id, messages, response, tool_idx, tool_params,
                   combined_results, final_params, contents, blk, off, exc, io, uuids,
                   turns, prev, storeVars, loopVars, lookupVars, completion, held>>

\* The texts of a sequence of events, concatenated in order.
RECURSIVE reply_of(_)
reply_of(evs) ==
    IF evs = <<>> THEN <<>>
    ELSE (IF Head(evs).type = "text" THEN Head(evs).text ELSE <<>>) \o reply_of(Tail(evs))

\* Lines 347-357: the success log line and the done event.
yield_done ==
    /\ pc = "finish"
    /\ Yield([type |-> "done"])
    /\ pc' = "terminated"
    /\ prev' = Append(prev, [chat_id |-> chat_id, message |-> req.message,
                             reply |-> reply_of(events)])
    /\ UNCHANGED <<req, chat_id, messages, response, tool_idx, tool_params,
                   combined_results, final_params, contents, blk, off, exc, io, uuids,
                   turns, storeVars, loopVars, lookupVars, completion, held>>

\* An except clause after which the generator goes on to the done event.
handle_exception_falls_through ==
    /\ pc = "except"
    /\ Yield([type |-> "error", error |-> exc])
    /\ pc' = "finish"
    /\ UNCHANGED <<req, chat_id, messages, response, tool_idx, tool_params,
                   combined_results, final_params, contents, blk, off, exc, io, uuids,
                   turns, prev, storeVars, loopVars, lookupVars, completion, held>>

\* Lines 359-372: the except clause yields the error event and the generator ends.
handle_exception ==
    /\ pc = "except"
    /\ Yield([type |-> "error", error |-> exc])
    /\ pc' = "terminated"
    /\ UNCHANGED <<req, chat_id, messages, response, tool_idx, tool_params,
                   combined_results, final_params, contents, blk, off, exc, io, uuids,
                   turns, prev, storeVars, loopVars, lookupVars, completion, held>>

Next ==
    \/ stream_chat(Requests)
    \/ yield_chat_id
    \/ initial_completion(InitialResponses)
    \/ skip_tool_call
    \/ tool_call_begin
    \/ wikipedia_search(WikiOutcomes)
    \/ final_completion(FinalResponses)
    \/ final_retry(FinalResponses)
    \/ stream_chunk
    \/ fallback_text
    \/ yield_done
    \/ handle_exception

\* One turn from startup, under every answer of the provider and of Wikipedia.
\* chat_stream keeps nothing from one turn to the next, so the turns of a
\* process are runs of this one.
Spec == Init /\ [][Next]_vars

----------------------------------------------------------------------------
(* Consecutive turns of one process, with fewer provider answers. *)

MemoryRequests == [message : {"moon", "hi"}, chat_id : {None, Some("c1")},
                   use_wikipedia : BOOLEAN]
MemoryInitialResponses ==
    {[content |-> c, tool_calls |-> <<>>] : c \in {<<>>, <<Block(12)>>}}
      \cup {[content |-> <<>>,
              tool_calls |-> <<ToolCall("calculator", StrArg(RawObjEmpty)),
                               ToolCall("wikipedia_search", StrArg(RawObjQuery))>>]}
MemoryFinalResponses == {[content |-> c, tool_calls |-> <<>>] : c \in {<<>>, <<Block(4)>>}}

NextMemory ==
    \/ stream_chat(MemoryRequests)
    \/ stream_chat_next(MemoryRequests)
    \/ yield_chat_id
    \/ initial_completion(MemoryInitialResponses)
    \/ skip_tool_call
    \/ tool_call_begin
    \/ wikipedia_search({NoHits})
    \/ final_completion(MemoryFinalResponses)
    \/ final_retry(MemoryFinalResponses)
    \/ stream_chunk
    \/ fallback_text
    \/ yield_done
    \/ handle_exception

SpecMemory == Init /\ [][NextMemory]_vars

----------------------------------------------------------------------------
(* One turn whose client may go away while the text is streamed. *)

\* The consumer of generate_stream stops after a text event: the response is
\* torn down and the generators are closed where they are suspended (the
\* yield of line 327 or 343, or the sleep after it).  GeneratorExit and
\* CancelledError are no Exception: no except clause of chat_stream or of
\* generate_stream runs, and nothing stands after the loops in a finally.
client_disconnect ==
    /\ pc \in {"stream", "finish"}
    /\ events # <<>> /\ events[Len(events)].type = "text"
    /\ pc' = "closed"
    /\ UNCHANGED <<req, chat_id, messages, response, tool_idx, tool_params,
                   combined_results, final_params, contents, blk, off, exc, events, frames,
                   io, uuids, turns, prev, storeVars, loopVars, lookupVars, completion, held>>

NextDisconnect ==
    \/ stream_chat(MemoryRequests)
    \/ yield_chat_id
    \/ initial_completion(MemoryInitialResponses)
    \/ skip_tool_call
    \/ tool_call_begin
    \/ wikipedia_search({NoHits})
    \/ final_completion(MemoryFinalResponses)
    \/ final_retry(MemoryFinalResponses)
    \/ stream_chunk
    \/ fallback_text
    \/ yield_done
    \/ handle_exception
    \/ client_disconnect

SpecDisconnect == Init /\ [][NextDisconnect]_vars

----------------------------------------------------------------------------
(* The non-streaming endpoint: create_completion and ProviderClient.complete. *)

\* A CompletionRequest that passed validation: the prompt is not empty.
CompletionRequests == [prompt : {"moon", "hi"}, model : {None, Some("command-r")}]

\* What self._client.chat does: it raises, or returns a response whose
\* attributes may be missing (finish_reason "missing") or None ("none").
ProviderRaises == {"ValueError", "ApiError"}
ProviderResponses ==
    [output_text : {<<>>, <<"A">>}, content : {<<>>, <<"", "B">>}, text : {<<>>, <<"C">>},
     finish_reason : {"missing", "none", "COMPLETE"}]

\* _extract_text: output_text, else the joined truthy block texts, else text,
\* else None.
block_has_text(t) == t # ""
_extract_text(resp) ==
    IF resp.output_text # <<>> THEN resp.output_text
    ELSE IF SelectSeq(resp.content, block_has_text) # <<>>
      THEN SelectSeq(resp.content, block_has_text)
    ELSE resp.text

\* Lines 100-105: CompletionResponse(...) with output and finish_reason
\* required strings; the exception the construction raises, "" when none.
completion_response_raises(resp) ==
    IF resp.finish_reason = "missing" THEN "AttributeError"
    ELSE IF _extract_text(resp) = <<>> \/ resp.finish_reason = "none" THEN "ValidationError"
    ELSE ""

\* The classes an except ValueError clause catches: pydantic's
\* ValidationError derives from ValueError.
IsValueError(e) == e \in {"ValueError", "ValidationError"}

\* The request reaches the handler, which awaits complete.
create_completion ==
    /\ completion.pc = "idle"
    /\ \E r \in CompletionRequests :
         completion' = [NoCompletion EXCEPT !.pc = "chat", !.req = r]
    /\ UNCHANGED <<turnVars, storeVars, loopVars, lookupVars, held>>

\* complete, lines 86-134: the provider call and the construction of the
\* response inside one try; except Exception re-raises as RuntimeError.
complete ==
    /\ completion.pc = "chat"
    /\ \/ \E e \in ProviderRaises :
            completion' = [completion EXCEPT !.pc = "raised", !.raised = e,
                                             !.exc = "RuntimeError"]
       \/ \E resp \in ProviderResponses :
            LET e == completion_response_raises(resp)
            IN completion' =
                 IF e = ""
                   THEN [completion EXCEPT !.pc = "returned", !.resp = resp,
                                           !.output = _extract_text(resp)]
                   ELSE [completion EXCEPT !.pc = "raised", !.resp = resp, !.raised = e,
                                           !.exc = "RuntimeError"]
    /\ UNCHANGED <<turnVars, storeVars, loopVars, lookupVars, held>>

\* create_completion, lines 61-87: the response, or the HTTPException of the
\* except clause that catches what complete raised.
create_completion_return ==
    /\ completion.pc \in {"returned", "raised"}
    /\ completion' =
         IF completion.pc = "returned"
           THEN [completion EXCEPT !.pc = "responded", !.status = 200]
         ELSE IF IsValueError(completion.exc)
           THEN [completion EXCEPT !.pc = "responded", !.status = 400,
                                   !.detail = <<completion.exc>>]
         ELSE [completion EXCEPT !.pc = "responded", !.status = 500,
                                 !.detail = <<"Internal server error">>]
    /\ UNCHANGED <<turnVars, storeVars, loopVars, lookupVars, held>>

NextCompletion == create_completion \/ complete \/ create_completion_return

SpecCompletion == Init /\ [][NextCompletion]_vars

----------------------------------------------------------------------------
(* Consecutive turns and the application's shutdown. *)

\* main.py shutdown_event: the handler logs and returns.  Uvicorn runs it
\* once, after the requests in flight have ended; no request is served later.
shutdown_event ==
    /\ pc \in {"idle", "terminated"}
    /\ ~shut
    /\ shut' = TRUE
    /\ UNCHANGED <<turnVars, storeVars, loopVars, session, created, completion, held>>

NextSession ==
    \/ stream_chat(MemoryRequests)
    \/ stream_chat_next(MemoryRequests)
    \/ yield_chat_id
    \/ initial_completion(MemoryInitialResponses)
    \/ skip_tool_call
    \/ tool_call_begin
    \/ wikipedia_search({NoHits})
    \/ final_completion(MemoryFinalResponses)
    \/ final_retry(MemoryFinalResponses)
    \/ stream_chunk
    \/ fallback_text
    \/ yield_done
    \/ handle_exception
    \/ shutdown_event

SpecSession == Init /\ [][NextSession]_vars

----------------------------------------------------------------------------
(* One turn with fewer provider answers, under every answer of Wikipedia. *)

LookupInitialResponses ==
    {[content |-> <<>>, tool_calls |-> <<>>]}
      \cup {[content |-> <<>>, tool_calls |-> tc] :
              tc \in {<<ToolCall("wikipedia_search", StrArg(RawObjQuery))>>,
                      <<ToolCall("wikipedia_search", StrArg(RawObjQueryLimit)),
                        ToolCall("calculator", StrArg(RawObjEmpty)),
                        ToolCall("wikipedia_search", StrArg(RawNotJson))>>}}

NextLookup ==
    \/ stream_chat(MemoryRequests)
    \/ yield_chat_id
    \/ initial_completion(LookupInitialResponses)
    \/ skip_tool_call
    \/ tool_call_begin
    \/ wikipedia_search(LookupAnswers)
    \/ final_completion(MemoryFinalResponses)
    \/ final_retry(MemoryFinalResponses)
    \/ stream_chunk
    \/ fallback_text
    \/ yield_done
    \/ handle_exception

SpecLookup == Init /\ [][NextLookup]_vars

----------------------------------------------------------------------------
(* The store under one client that calls add_message and get_messages one   *)
(* after the other while the clock advances.                                *)

StoreIds == {"c1", "c2"}
StoreTurns == {[role |-> "user", content |-> <<"moon">>],
               [role |-> "assistant", content |-> <<"Buzz">>]}
Limits == {0, 2, 20}

\* A completed call: its arguments, what it returned and, for get_messages,
\* whether the id had a record after the sweep and the turns stored in it.
AddCall(id, m) ==
    [op |-> "add", chat_id |-> id, role |-> m.role, content |-> m.content,
     max_messages |-> 0, result |-> <<>>, present |-> TRUE, stored |-> <<>>]
GetCall(id, n, result, live) ==
    [op |-> "get", chat_id |-> id, role |-> "", content |-> <<>>,
     max_messages |-> n, result |-> result, present |-> id \in DOMAIN live,
     stored |-> IF id \in DOMAIN live THEN live[id].messages ELSE <<>>]
Remember(c) == calls' = IF Len(calls) < 2 THEN Append(calls, c) ELSE <<calls[2], c>>

\* How many turns the store holds, over all records.
RECURSIVE StoredTurns(_)
StoredTurns(convs) ==
    IF DOMAIN convs = {} THEN 0
    ELSE LET id == CHOOSE i \in DOMAIN convs : TRUE
         IN Len(convs[id].messages) + StoredTurns([i \in DOMAIN convs \ {id} |-> convs[i]])

\* Line 39: the stored list object itself is returned when it has at most
\* max_messages turns; the slice and the [] of line 35 are new lists.
returns_stored_list(convs, t, id, max_messages) ==
    LET live == _cleanup_expired(convs, t)
    IN id \in DOMAIN live /\ ~(Len(live[id].messages) > max_messages)

\* The list the client holds after get_messages returned.
Held(convs, t, id, max_messages) ==
    [kind |-> IF returns_stored_list(convs, t, id, max_messages) THEN "alias" ELSE "copy",
     chat_id |-> id,
     returned |-> get_messages(convs, t, id, max_messages),
     seen |-> get_messages(convs, t, id, max_messages)]

\* What the client's list holds after the store changed: the append of line
\* 23 is made in place, on the list the client holds when that is the
\* stored one.
seen_after(h, convs) ==
    IF h.kind = "alias" /\ h.chat_id \in DOMAIN convs
      THEN [h EXCEPT !.seen = convs[h.chat_id].messages]
      ELSE h

\* conversation_store.add_message(chat_id, role, content)
call_add_message(ids, msgs) ==
    /\ StoredTurns(conversations) < MaxStored
    /\ \E id \in ids, m \in msgs :
         /\ conversations' = add_message(conversations, now, id, m.role, m.content)
         /\ Remember(AddCall(id, m))
    /\ held' = seen_after(held, conversations')
    /\ UNCHANGED <<now, turnVars, threadVars, loopVars, lookupVars, completion>>

\* conversation_store.get_messages(chat_id, max_messages): the sweep, then the read.
call_get_messages(ids, limits) ==
    /\ \E id \in ids, n \in limits :
         /\ conversations' = _cleanup_expired(conversations, now)
         /\ Remember(GetCall(id, n, get_messages(conversations, now, id, n), conversations'))
         /\ held' = Held(conversations, now, id, n)
    /\ UNCHANGED <<now, turnVars, threadVars, loopVars, lookupVars, completion>>

\* time.time() moves on by one ttl: a record written at t is not yet expired
\* at t + ttl and is expired at t + 2 * ttl.
advance_clock ==
    /\ now < MaxClock * ttl_seconds
    /\ now' = now + ttl_seconds
    /\ UNCHANGED <<conversations, calls, turnVars, threadVars, loopVars, lookupVars, completion, held>>

NextStore ==
    \/ call_add_message(StoreIds, StoreTurns)
    \/ call_get_messages(StoreIds, Limits)
    \/ advance_clock

SpecStore == Init /\ [][NextStore]_vars

\* The client appends a turn to the list it got from get_messages: when that
\* list is the stored one, the record grows without a call of add_message.
caller_appends(msgs) ==
    /\ held.kind # "none"
    /\ StoredTurns(conversations) < MaxStored
    /\ Len(held.seen) < MaxStored
    /\ \E m \in msgs :
         /\ held' = [held EXCEPT !.seen = Append(@, m)]
         /\ conversations' =
              IF held.kind = "alias"
                THEN [conversations EXCEPT ![held.chat_id].messages = Append(@, m)]
                ELSE conversations
    /\ UNCHANGED <<now, calls, turnVars, threadVars, loopVars, lookupVars, completion>>

\* The store under a client that keeps and changes the lists it is given.
NextCaller ==
    \/ call_add_message(ThreadIds, StoreTurns)
    \/ call_get_messages(ThreadIds, Limits)
    \/ advance_clock
    \/ caller_appends(StoreTurns)

SpecCaller == Init /\ [][NextCaller]_vars

----------------------------------------------------------------------------
(* The store under concurrent threads.  A method is the statements of its   *)
(* body, one step each, between taking the lock and giving it back.         *)

InFlightAdds == Cardinality({t \in Threads : th[t].op = "add" /\ th[t].pc # "idle"})
Step(t, next) == th' = [th EXCEPT ![t].pc = next]
\* An exception leaves the with block: the lock is given back on the way out.
Raise(t) ==
    /\ th' = [th EXCEPT ![t].pc = "raised"]
    /\ lock' = IF lock = t THEN 0 ELSE lock

\* A thread calls add_message or get_messages.
thread_call(t) ==
    /\ th[t].pc = "idle"
    /\ \/ /\ StoredTurns(conversations) + InFlightAdds < MaxStored
          /\ \E id \in ThreadIds, m \in StoreTurns :
               th' = [th EXCEPT ![t] = [Idle EXCEPT !.pc = "acquire", !.op = "add",
                                                   !.chat_id = id, !.turn = m,
                                                   !.first = id \notin DOMAIN conversations]]
       \/ \E id \in ThreadIds, n \in {1, 20} :
               th' = [th EXCEPT ![t] = [Idle EXCEPT !.pc = "acquire", !.op = "get",
                                                   !.chat_id = id, !.max_messages = n]]
    /\ UNCHANGED <<conversations, now, calls, lock, completed, turnVars, loopVars, lookupVars, completion, held>>

\* Lines 16 and 31: with self._lock.
lock_acquire(t) ==
    /\ th[t].pc = "acquire"
    /\ lock_free(lock)
    /\ lock' = t
    /\ Step(t, IF th[t].op = "add" THEN "check" ELSE "sweep")
    /\ UNCHANGED <<conversations, now, calls, completed, turnVars, loopVars, lookupVars, completion, held>>

\* Line 17: if chat_id not in self._conversations.
add_check(t) ==
    /\ th[t].pc = "check"
    /\ th' = [th EXCEPT ![t].absent = th[t].chat_id \notin DOMAIN conversations,
                         ![t].pc = IF th[t].chat_id \notin DOMAIN conversations
                                     THEN "create" ELSE "append"]
    /\ UNCHANGED <<conversations, now, calls, lock, completed, turnVars, loopVars, lookupVars, completion, held>>

\* Lines 18-21: the new record.
add_create(t) ==
    /\ th[t].pc = "create"
    /\ conversations' =
         [i \in DOMAIN conversations \cup {th[t].chat_id} |->
            IF i = th[t].chat_id THEN [messages |-> <<>>, last_updated |-> now]
            ELSE conversations[i]]
    /\ completed' = [completed EXCEPT ![th[t].chat_id] = <<>>]
    /\ Step(t, "append")
    /\ UNCHANGED <<now, calls, lock, turnVars, loopVars, lookupVars, completion, held>>

\* Lines 23-26: the append; the subscript raises KeyError when the record is gone.
add_append(t) ==
    /\ th[t].pc = "append"
    /\ IF th[t].chat_id \in DOMAIN conversations
         THEN /\ conversations' =
                   [conversations EXCEPT ![th[t].chat_id].messages = Append(@, th[t].turn)]
              /\ Step(t, "touch")
              /\ lock' = lock
         ELSE /\ Raise(t)
              /\ conversations' = conversations
    /\ UNCHANGED <<now, calls, completed, turnVars, loopVars, lookupVars, completion, held>>

\* Line 27: last_updated = time.time(), and the with block ends.
add_touch(t) ==
    /\ th[t].pc = "touch"
    /\ IF th[t].chat_id \in DOMAIN conversations
         THEN /\ conversations' = [conversations EXCEPT ![th[t].chat_id].last_updated = now]
              /\ Step(t, "release")
              /\ lock' = lock
         ELSE /\ Raise(t)
              /\ conversations' = conversations
    /\ UNCHANGED <<now, calls, completed, turnVars, loopVars, lookupVars, completion, held>>

\* Line 32: self._cleanup_expired().
get_sweep(t) ==
    /\ th[t].pc = "sweep"
    /\ conversations' = _cleanup_expired(conversations, now)
    /\ Step(t, "read")
    /\ UNCHANGED <<now, calls, lock, completed, turnVars, loopVars, lookupVars, completion, held>>

\* Lines 34-39: the read.
get_read(t) ==
    /\ th[t].pc = "read"
    /\ th' = [th EXCEPT ![t].result = read_messages(conversations, th[t].chat_id,
                                                     th[t].max_messages),
                         ![t].pc = "release"]
    /\ UNCHANGED <<conversations, now, calls, lock, completed, turnVars, loopVars, lookupVars, completion, held>>

\* The with block ends and the method returns.
thread_return(t) ==
    /\ th[t].pc = "release"
    /\ lock' = IF lock = t THEN 0 ELSE lock
    /\ Step(t, "idle")
    /\ completed' = IF th[t].op = "add"
                       THEN [completed EXCEPT ![th[t].chat_id] = Append(@, th[t].turn)]
                       ELSE completed
    /\ UNCHANGED <<conversations, now, calls, turnVars, loopVars, lookupVars, completion, held>>

NextThreads ==
    \/ \E t \in Threads : thread_call(t)
    \/ \E t \in Threads : lock_acquire(t)
    \/ \E t \in Threads : add_check(t)
    \/ \E t \in Threads : add_create(t)
    \/ \E t \in Threads : add_append(t)
    \/ \E t \in Threads : add_touch(t)
    \/ \E t \in Threads : get_sweep(t)
    \/ \E t \in Threads : get_read(t)
    \/ \E t \in Threads : thread_return(t)
    \/ advance_clock

SpecThreads == Init /\ [][NextThreads]_vars

----------------------------------------------------------------------------
(* Two chat turns as tasks of the one asyncio event loop.  A task runs on   *)
(* the loop's thread from one suspension point to the next: a yield (the    *)
(* frame goes to the response writer), an await of the lookup, an await of  *)
(* the pacing sleep.  self._client is cohere.ClientV2, the blocking client: *)
(* self._client.chat(...) is an ordinary call, the thread stays in it until *)
(* the provider has answered.                                               *)

\* The task yields an event and the generator is suspended at pc next.
Emit(t, next, left) ==
    /\ task' = [task EXCEPT ![t] = [pc |-> next, chunks |-> left, emitted |-> task[t].emitted + 1]]
    /\ loop' = 0
\* The first chunk of an answer of n chunks; the terminal event (done, or
\* error after a raise) when there is nothing to stream.
StreamFrom(t, n) == IF n = 0 THEN Emit(t, "done", 0) ELSE Emit(t, "sleep", n - 1)

\* Lines 219-235: the turn starts and yields the chat_id event.
task_start(t) ==
    /\ task[t].pc = "idle"
    /\ loop = 0
    /\ Emit(t, "initial", 0)
    /\ UNCHANGED <<turnVars, storeVars, lookupVars, completion, held>>

\* Lines 237-253: the generator is resumed and calls self._client.chat.
initial_call(t) ==
    /\ task[t].pc = "initial"
    /\ loop = 0
    /\ task' = [task EXCEPT ![t].pc = "initial_wait"]
    /\ loop' = t
    /\ UNCHANGED <<turnVars, storeVars, lookupVars, completion, held>>

\* Lines 253-270 and 333-372: the provider has answered or failed; the turn
\* goes on to its next yield: the tool event, the first chunk, done or error.
initial_return(t) ==
    /\ task[t].pc = "initial_wait"
    /\ loop = t
    /\ \/ Emit(t, "lookup", 0)
       \/ \E n \in 0..2 : StreamFrom(t, n)
    /\ UNCHANGED <<turnVars, storeVars, lookupVars, completion, held>>

\* Lines 282-285: await wikipedia_tool.search(...): the task is suspended.
lookup_await(t) ==
    /\ task[t].pc = "lookup"
    /\ loop = 0
    /\ task' = [task EXCEPT ![t].pc = "lookup_wait"]
    /\ loop' = 0
    /\ UNCHANGED <<turnVars, storeVars, lookupVars, completion, held>>

\* Lines 288-306: the lookup is back; the turn renders it and calls
\* self._client.chat for the final answer.
final_call(t) ==
    /\ task[t].pc = "lookup_wait"
    /\ loop = 0
    /\ task' = [task EXCEPT ![t].pc = "final_wait"]
    /\ loop' = t
    /\ UNCHANGED <<turnVars, storeVars, lookupVars, completion, held>>

\* Lines 306-331: the final call has answered, or has failed and the retry
\* of line 313 is made in the same breath.
final_return(t) ==
    /\ task[t].pc = "final_wait"
    /\ loop = t
    /\ \/ \E n \in 1..2 : StreamFrom(t, n)
       \/ Emit(t, "done", 0)
       \/ /\ task' = [task EXCEPT ![t].pc = "retry_wait"]
          /\ loop' = t
    /\ UNCHANGED <<turnVars, storeVars, lookupVars, completion, held>>

\* Lines 313-331 and 359-372: the retry has answered or failed.
retry_return(t) ==
    /\ task[t].pc = "retry_wait"
    /\ loop = t
    /\ \/ \E n \in 1..2 : StreamFrom(t, n)
       \/ Emit(t, "done", 0)
    /\ UNCHANGED <<turnVars, storeVars, lookupVars, completion, held>>

\* Lines 328 and 345: await asyncio.sleep(0.03) is over; the next chunk or done.
sleep_over(t) ==
    /\ task[t].pc = "sleep"
    /\ loop = 0
    /\ StreamFrom(t, task[t].chunks)
    /\ UNCHANGED <<turnVars, storeVars, lookupVars, completion, held>>

TaskNext(t) ==
    \/ task_start(t)
    \/ initial_call(t)
    \/ initial_return(t)
    \/ lookup_await(t)
    \/ final_call(t)
    \/ final_return(t)
    \/ retry_return(t)
    \/ sleep_over(t)

NextLoop == \E t \in Tasks : TaskNext(t)

SpecLoop == Init /\ [][NextLoop]_vars

----------------------------------------------------------------------------
(* What the claims speak of. *)

Types(evs) == [i \in 1..Len(evs) |-> evs[i].type]
Indexes(evs, kinds) == {i \in 1..Len(evs) : evs[i].type \in kinds}
Terminal == {"done", "error"}
Ended == pc = "terminated"
EndedWith(kind) == Ended /\ events[Len(events)].type = kind

ChatCalls == {k \in 1..Len(io) : io[k].op = "chat"}
Lookups == {k \in 1..Len(io) : io[k].op = "search"}
\* The provider calls after the initial one: the final call and its retry.
FinalCalls == {k \in 2..Len(io) : io[k].op = "chat"}
InitialOk == io # <<>> /\ io[1].ok

LookupInvocations ==
    {i \in 1..Len(response.tool_calls) : response.tool_calls[i].name = "wikipedia_search"}
NoText(cs) == \A b \in 1..Len(cs) : cs[b].text = <<>>
user_turn(m) == [role |-> "user", content |-> <<m>>]
assistant_turn(text) == [role |-> "assistant", content |-> text]

----------------------------------------------------------------------------
\* C1: in every turn, whatever the provider and the lookups do, the events
\* yielded (and relayed frame by frame by generate_stream) begin with the one
\* chat_id event, hold a terminal event (done or error) exactly when the turn
\* has ended, that event is the last one, and a turn that has not ended can
\* always take a step.
C1_EventFraming ==
    /\ frames = [i \in 1..Len(events) |-> sse(events[i])]
    /\ pc \in {"idle", "start"} => events = <<>>
    /\ pc \notin {"idle", "start"} => Indexes(events, {"chat_id"}) = {1}
    /\ Indexes(events, Terminal) = IF Ended THEN {Len(events)} ELSE {}
    /\ pc \notin {"idle", "terminated"} => ENABLED Next

\* A turn with a tool event and a failed provider call has ended with error.
C1_FaultyTurnEnded ==
    /\ EndedWith("error")
    /\ Indexes(events, {"tool"}) # {}
    /\ \E k \in ChatCalls : ~io[k].ok

\* C2: a turn that ends with done has emitted a text event; when the answer's
\* response has no extractable text, the one text event is the fallback.
C2_FallbackText ==
    EndedWith("done") =>
        /\ Indexes(events, {"text"}) # {}
        /\ NoText(contents) =>
             \E i \in 1..Len(events) :
                /\ Indexes(events, {"text"}) = {i}
                /\ events[i].text = FallbackText

\* C3: a tool-enabled turn whose lookups all return nothing ends with done and
\* a non-empty reply, and the final call carries the no-articles sentence.
C3_EmptyLookupsAnswered ==
    (Ended /\ req.use_wikipedia /\ Lookups # {} /\ \A k \in Lookups : io[k].n = 0) =>
        /\ EndedWith("done")
        /\ reply_of(events) # <<>>
        /\ \A k \in FinalCalls :
             LET msgs == io[k].params.messages
             IN \E j \in 1..Len(msgs[Len(msgs)].content) :
                   msgs[Len(msgs)].content[j] = NoArticles

\* C4: when every provider call raises, there is one provider call and no
\* lookup, and the events are the chat_id event followed by the error event.
C4_ProviderDown ==
    (io # <<>> /\ \A k \in ChatCalls : ~io[k].ok) =>
        /\ Len(io) = 1
        /\ pc \in {"except", "terminated"}
        /\ Types(events) = IF Ended THEN <<"chat_id", "error">> ELSE <<"chat_id">>

\* A turn whose only provider call raised has ended.
C4_ProviderDownEnded ==
    Ended /\ ChatCalls = {1} /\ ~io[1].ok

\* C5: the user message is in the store under the turn's id before the
\* initial provider call, and a turn that ends with done leaves the store
\* ending with the user message and the assistant reply.
C5_MemoryUpdated ==
    LET stored == get_messages(conversations, now, chat_id, 20)
    IN /\ io # <<>> => \E i \in 1..Len(stored) : stored[i] = user_turn(req.message)
       /\ EndedWith("done") =>
            /\ Len(stored) >= 2
            /\ stored[Len(stored) - 1] = user_turn(req.message)
            /\ stored[Len(stored)] = assistant_turn(reply_of(events))

\* C6: the initial call carries the (up to 10) stored turns of the id and then
\* the user message, so a later turn on an id carries the user message and the
\* reply of every earlier turn on it that ended with done and a reply.
C6_HistorySent ==
    InitialOk =>
        LET sent == io[1].params.messages
            h == get_messages(conversations, now, chat_id, 10)
            hist == IF h # <<>> /\ h[Len(h)] = user_turn(req.message)
                      THEN h ELSE Append(h, user_turn(req.message))
            earlier == Len(prev) - (IF EndedWith("done") THEN 1 ELSE 0)
        IN /\ sent = (IF req.use_wikipedia THEN <<Primer>> ELSE <<>>) \o hist
           /\ \A n \in 1..earlier :
                (prev[n].chat_id = chat_id /\ prev[n].reply # <<>>) =>
                    \E j \in 1..(Len(sent) - 1) :
                        /\ sent[j] = user_turn(prev[n].message)
                        /\ sent[j + 1] = assistant_turn(prev[n].reply)

\* C7: a tool-enabled turn whose initial call succeeds makes a lookup; when
\* the response names no lookup invocation, it makes exactly one, with the
\* user message as the query, before the answer.
C7_ProactiveLookup ==
    (req.use_wikipedia /\ InitialOk /\ pc \in {"fallback", "stream", "finish", "terminated"}) =>
        /\ Lookups # {}
        /\ LookupInvocations = {} =>
             \E k \in 1..Len(io) :
                /\ Lookups = {k}
                /\ io[k].query = req.message
                /\ io[k].at = 1

\* C8: every provider call after the initial one carries no tool definitions
\* and tool_choice none, and no lookup follows it.
C8_SingleToolRound ==
    \A k \in FinalCalls :
        /\ ~io[k].params.tools
        /\ ~io[k].params.strict_tools
        /\ io[k].params.tool_choice = Some("none")
        /\ \A j \in (k + 1)..Len(io) : io[j].op # "search"
        /\ pc \notin {"tool_loop", "search"}

\* A tool-enabled turn with a lookup and a final call has ended.
C8_ToolRoundEnded ==
    /\ Ended
    /\ io # <<>> /\ io[1].params.tools
    /\ Lookups # {}
    /\ FinalCalls # {}

\* C9: a failed final call is followed by exactly one retry with the same
\* parameters; the turn goes on to stream and done when the retry succeeds, and
\* ends with error, with no third attempt, when it raises too.
C9_FinalRetry ==
    /\ Cardinality(FinalCalls) <= 2
    /\ pc = "retry" => Len(io) \in FinalCalls /\ ~io[Len(io)].ok
    /\ \A k \in FinalCalls :
         (k - 1 \notin FinalCalls /\ ~io[k].ok /\ pc # "retry") =>
            /\ k + 1 \in FinalCalls
            /\ io[k + 1].params = io[k].params
            /\ IF io[k + 1].ok
                 THEN /\ pc \in {"fallback", "stream", "finish", "terminated"}
                      /\ Ended => EndedWith("done")
                 ELSE /\ pc \in {"except", "terminated"}
                      /\ Ended => EndedWith("error")
    /\ \A k \in FinalCalls :
         (k - 1 \notin FinalCalls /\ io[k].ok) => FinalCalls = {k}

\* A turn whose final call raised and whose retry answered has streamed text
\* and ended with done.
C9_RetrySucceeded ==
    /\ EndedWith("done")
    /\ Cardinality(FinalCalls) = 2
    /\ io[Len(io)].ok
    /\ Indexes(events, {"text"}) # {}

\* C10: in a tool-enabled turn no argument payload of a lookup invocation ends the turn: each one
\* gets its tool event and its lookup, and a payload that is not valid JSON is
\* the query as it stands.
C10_ArgumentsNeverFatal ==
    req.use_wikipedia =>
        /\ exc # "AttributeError"
        /\ pc = "search" =>
             LET args == response.tool_calls[tool_idx].arguments
             IN (args.kind = "str" /\ ~json_loads(args.raw).ok) =>
                    events[Len(events)].query = args.raw
        /\ (InitialOk /\ FinalCalls # {}) =>
             /\ Cardinality(Indexes(events, {"tool"})) = Cardinality(LookupInvocations)
             /\ Cardinality(Lookups) = Cardinality(LookupInvocations)
----------------------------------------------------------------------------
\* An invocation whose arguments do not parse to a dict (the failure of C10).
ArgumentsFailed ==
    \E i \in LookupInvocations : ~has_get(parse_arguments(response.tool_calls[i].arguments))

\* C11: search never raises to chat_stream: under a network error, a timeout,
\* a non-200 status or a malformed body in either phase it returns the empty
\* list, and a turn that ends with the error event owes it to a failed
\* provider call or to the arguments of an invocation, never to a lookup.
C11_LookupNeverRaises ==
    /\ \A k \in Lookups :
          /\ io[k].raised = ""
          /\ io[k].answers \in LookupFailures => io[k].n = 0
    /\ EndedWith("error") => (\E k \in ChatCalls : ~io[k].ok) \/ ArgumentsFailed

\* A turn whose two lookups failed, one in each phase, and that ended with done.
C11_FailedLookupsDone ==
    /\ EndedWith("done")
    /\ \E k \in Lookups : io[k].answers \in Phase1Failures /\ io[k].answers.first.exc = "ClientError"
    /\ \E k \in Lookups : io[k].answers \in Phase2Failures /\ io[k].answers.second.json = "list"

----------------------------------------------------------------------------
\* The texts of the text events, in emission order.
RECURSIVE TextsOf(_)
TextsOf(evs) ==
    IF evs = <<>> THEN <<>>
    ELSE (IF Head(evs).type = "text" THEN <<Head(evs).text>> ELSE <<>>) \o TextsOf(Tail(evs))

\* The assistant text of a response: its text blocks in order.
RECURSIVE AssistantText(_)
AssistantText(cs) == IF cs = <<>> THEN <<>> ELSE Head(cs).text \o AssistantText(Tail(cs))

\* One text cut into pieces of ten characters, the last one shorter or equal.
TenByTen(text) ==
    [k \in 1..((Len(text) + 9) \div 10) |-> SubSeq(text, 10 * (k - 1) + 1, Min(10 * k, Len(text)))]
RECURSIVE ExpectedChunks(_)
ExpectedChunks(cs) ==
    IF cs = <<>> THEN <<>> ELSE TenByTen(Head(cs).text) \o ExpectedChunks(Tail(cs))

\* C12: when the response being streamed has text, the text events emitted so
\* far are, in order, the first pieces of its text blocks cut ten by ten: each
\* has 1 to 10 characters, each but the last of a block has exactly 10, and
\* at done the text events are all the pieces and their concatenation is the
\* assistant text.
C12_Chunking ==
    ((pc \in {"stream", "finish"} \/ EndedWith("done")) /\ AssistantText(contents) # <<>>) =>
        LET texts == TextsOf(events)
            pieces == ExpectedChunks(contents)
        IN /\ Len(texts) <= Len(pieces)
           /\ texts = SubSeq(pieces, 1, Len(texts))
           /\ \A i \in 1..Len(texts) : Len(texts[i]) >= 1 /\ Len(texts[i]) <= 10
           /\ pc # "stream" => texts = pieces /\ reply_of(events) = AssistantText(contents)

\* A tool-path turn has streamed two text blocks of 12 and 4 characters in
\* chunks of 10, 2 and 4 and ended with done.
C12_TwoBlocksStreamed ==
    /\ EndedWith("done")
    /\ Lookups # {}
    /\ contents = <<Block(0), Block(12), Block(4)>>
    /\ [i \in 1..3 |-> Len(TextsOf(events)[i])] = <<10, 2, 4>>

----------------------------------------------------------------------------
\* The queries of the lookup-tool invocations of a response, in reported order.
RECURSIVE InvocationQueries(_)
InvocationQueries(tcs) ==
    IF tcs = <<>> THEN <<>>
    ELSE (IF Head(tcs).name = "wikipedia_search"
            THEN <<get_query(parse_arguments(Head(tcs).arguments))>> ELSE <<>>)
           \o InvocationQueries(Tail(tcs))

\* The queries of the tool events, in emission order.
RECURSIVE ToolQueries(_)
ToolQueries(evs) ==
    IF evs = <<>> THEN <<>>
    ELSE (IF Head(evs).type = "tool" THEN <<Head(evs).query>> ELSE <<>>) \o ToolQueries(Tail(evs))

\* The k-th element of a set of indexes, in increasing order.
Nth(S, k) == CHOOSE i \in S : Cardinality({j \in S : j < i}) = k - 1

\* C13: a tool-enabled turn on the tool path has, when it ends, one tool event
\* per lookup-tool invocation, in the reported order; the tool event of an
\* invocation is out before its lookup starts; every tool event precedes every
\* text event, and the text events precede done.
C13_ToolEvents ==
    (Ended /\ req.use_wikipedia /\ response.tool_calls # <<>>) =>
        LET tools == Indexes(events, {"tool"})
            texts == Indexes(events, {"text"})
        IN /\ ToolQueries(events) = InvocationQueries(response.tool_calls)
           /\ Cardinality(Lookups) = Cardinality(tools)
           /\ \A k \in 1..Cardinality(tools) :
                 /\ io[Nth(Lookups, k)].at >= Nth(tools, k)
                 /\ k < Cardinality(tools) => io[Nth(Lookups, k)].at < Nth(tools, k + 1)
           /\ \A i \in tools, j \in texts : i < j
           /\ \A j \in texts, d \in Indexes(events, {"done"}) : j < d

----------------------------------------------------------------------------
\* The last two calls were get_messages with the same id and max_messages.
TwoReads ==
    /\ Len(calls) = 2
    /\ calls[1].op = "get" /\ calls[2].op = "get"
    /\ calls[1].chat_id = calls[2].chat_id
    /\ calls[1].max_messages = calls[2].max_messages

\* C14: two consecutive get_messages(id, N) with no add_message between them
\* return identical sequences, also when time advances between the calls.
C14_Idempotent == TwoReads => calls[1].result = calls[2].result

\* C14, amended: they return identical sequences as long as the record has not
\* expired by the second call; a call that finds the record expired or absent
\* returns the empty sequence.
C14_IdempotentUntilExpiry ==
    TwoReads =>
        /\ calls[2].present => calls[1].result = calls[2].result
        /\ \A k \in 1..2 : ~calls[k].present => calls[k].result = <<>>

\* Two reads of one id, the first returned turns, the second found it expired.
C14_ExpiredBetweenReads ==
    /\ TwoReads
    /\ calls[1].result # <<>>
    /\ ~calls[2].present

----------------------------------------------------------------------------
\* The last call of the client.
LastCall == calls[Len(calls)]
LastIs(op) == calls # <<>> /\ LastCall.op = op

\* C15: get_messages returns exactly the last max_messages stored turns of the
\* id, oldest first, when max_messages is smaller than their number (0
\* included), all of them in append order otherwise, and the empty sequence
\* for an id without a record.
C15_LastTurns ==
    LastIs("get") =>
        LET stored == LastCall.stored
            n == LastCall.max_messages
        IN LastCall.result =
             IF ~LastCall.present THEN <<>>
             ELSE IF n < Len(stored) THEN SubSeq(stored, Len(stored) - n + 1, Len(stored))
             ELSE stored

----------------------------------------------------------------------------
\* The turn an add_message call carried.
TurnOf(c) == [role |-> c.role, content |-> c.content]
\* The last two calls appended a user turn and then an assistant turn to one id.
UserThenAssistant ==
    /\ Len(calls) = 2
    /\ calls[1].op = "add" /\ calls[1].role = "user"
    /\ calls[2].op = "add" /\ calls[2].role = "assistant"
    /\ calls[1].chat_id = calls[2].chat_id
WithinTtl(id) == id \in DOMAIN conversations /\ now - conversations[id].last_updated <= ttl_seconds

\* C16: after add_message the id has a record whose last turn is the one just
\* added; after a user turn and then an assistant turn were appended to an
\* id, a get_messages with max_messages >= 2 made within the ttl returns them
\* as its last two entries, user before assistant, role and content as given;
\* and a get_messages made right after an add_message ends with the added turn.
C16_RoundTrip ==
    /\ LastIs("add") =>
          /\ LastCall.chat_id \in DOMAIN conversations
          /\ LET msgs == conversations[LastCall.chat_id].messages
             IN msgs[Len(msgs)] = TurnOf(LastCall)
    /\ (UserThenAssistant /\ WithinTtl(calls[2].chat_id)) =>
          \A n \in {m \in Limits : m >= 2} :
             LET r == get_messages(conversations, now, calls[2].chat_id, n)
             IN /\ Len(r) >= 2
                /\ r[Len(r) - 1] = TurnOf(calls[1])
                /\ r[Len(r)] = TurnOf(calls[2])
    /\ (Len(calls) = 2 /\ calls[1].op = "add" /\ calls[2].op = "get"
           /\ calls[1].chat_id = calls[2].chat_id /\ calls[2].present
           /\ calls[2].max_messages >= 1) =>
          calls[2].result[Len(calls[2].result)] = TurnOf(calls[1])

\* A user turn and then an assistant turn were appended at time 0, and the
\* get_messages(id, 20) made one ttl later returned the two.
C16_ReadBack ==
    /\ Len(calls) = 2
    /\ calls[1].op = "add" /\ calls[1].role = "assistant"
    /\ calls[2].op = "get" /\ calls[2].chat_id = calls[1].chat_id
    /\ calls[2].max_messages = 20
    /\ calls[2].result = <<[role |-> "user", content |-> <<"moon">>], TurnOf(calls[1])>>
    /\ now = ttl_seconds
    /\ conversations[calls[2].chat_id].last_updated = 0

----------------------------------------------------------------------------
\* This step is a get_messages call.
GetStep ==
    /\ calls' # <<>> /\ calls'[Len(calls')].op = "get"
    /\ calls' # calls \/ conversations' # conversations
Expired(convs, id) == now - convs[id].last_updated > ttl_seconds

\* C17: when a get_messages call reads, the store holds no record with
\* now - last_updated > ttl: every such record has been removed by the call,
\* a query for its id returns the empty sequence, and every record with
\* now - last_updated <= ttl is still there, unchanged.
C17_ExpiredNeverServed ==
    [][GetStep =>
         /\ \A id \in DOMAIN conversations' : ~Expired(conversations', id)
         /\ \A id \in DOMAIN conversations :
               IF Expired(conversations, id)
                 THEN /\ id \notin DOMAIN conversations'
                      /\ calls'[Len(calls')].chat_id = id => calls'[Len(calls')].result = <<>>
                 ELSE /\ id \in DOMAIN conversations'
                      /\ conversations'[id] = conversations[id]]_vars

\* A read served a record exactly one ttl old; the next read of the same id,
\* one ttl later, found it swept, and the sweep kept a record one ttl old.
C17_SweptAndKept ==
    /\ TwoReads
    /\ calls[1].present /\ calls[1].result # <<>>
    /\ ~calls[2].present /\ calls[2].result = <<>>
    /\ now = 2 * ttl_seconds
    /\ \E id \in DOMAIN conversations : now - conversations[id].last_updated = ttl_seconds

----------------------------------------------------------------------------
IsPrefix(s, t) == Len(s) <= Len(t) /\ s = SubSeq(t, 1, Len(s))
\* This step is an add_message call.
AddStep == conversations' # conversations /\ calls' # <<>> /\ calls'[Len(calls')].op = "add"

\* C18: every step of the store leaves the turns of every record where they
\* are: a record either keeps its turns as a prefix of its new ones, the only
\* new one being the turn of the add_message call of that step, put last, or
\* goes as a whole in the sweep of a get_messages call because it had expired;
\* a new record starts with the turn of the call that created it.
C18_TurnsStay ==
    [][/\ \A id \in DOMAIN conversations :
            IF id \in DOMAIN conversations'
              THEN LET old == conversations[id].messages
                       new == conversations'[id].messages
                   IN /\ IsPrefix(old, new)
                      /\ new # old =>
                            /\ AddStep /\ calls'[Len(calls')].chat_id = id
                            /\ new = Append(old, TurnOf(calls'[Len(calls')]))
              ELSE GetStep /\ Expired(conversations, id)
       /\ \A id \in DOMAIN conversations' \ DOMAIN conversations :
            /\ AddStep /\ calls'[Len(calls')].chat_id = id
            /\ conversations'[id].messages = <<TurnOf(calls'[Len(calls')])>>]_vars

\* A record was read with two turns and then got a third one, after them.
C18_ThirdTurnAfterRead ==
    /\ Len(calls) = 2
    /\ calls[1].op = "get" /\ calls[2].op = "add"
    /\ calls[1].chat_id = calls[2].chat_id
    /\ Len(calls[1].stored) = 2
    /\ calls[2].chat_id \in DOMAIN conversations
    /\ conversations[calls[2].chat_id].messages = Append(calls[1].stored, TurnOf(calls[2]))

----------------------------------------------------------------------------
\* A thread is inside a with self._lock block.
Inside(t) == th[t].pc \in {"check", "create", "append", "touch", "sweep", "read", "release"}
\* The threads whose append to an id is done while the call has not returned.
Appended(id) ==
    {t \in Threads : th[t].op = "add" /\ th[t].chat_id = id /\ th[t].pc \in {"touch", "release"}}

\* C19: under every interleaving of the threads at most one is inside a
\* method body and it holds the lock; no statement of add_message finds its
\* record gone (no KeyError); and every record holds exactly the turns of the
\* add_message calls that returned since it was created, in that order, plus
\* the turn of the one call that has appended and not yet returned: no
\* append is lost and concurrent first appends end in one record.
C19_Atomic ==
    /\ \A t1, t2 \in Threads : (Inside(t1) /\ Inside(t2)) => t1 = t2
    /\ \A t \in Threads : Inside(t) => lock = t
    /\ \A t \in Threads : th[t].pc # "raised"
    /\ \A id \in ThreadIds \cap DOMAIN conversations :
          IF Appended(id) = {} THEN conversations[id].messages = completed[id]
          ELSE \E t \in Threads :
                 /\ Appended(id) = {t}
                 /\ conversations[id].messages = Append(completed[id], th[t].turn)

\* Two threads called add_message for an id that had no record at either
\* call; both have returned and the one record holds both turns.
C19_TwoFirstAppends ==
    /\ \A t \in Threads : th[t].pc = "idle" /\ th[t].op = "add" /\ th[t].first
    /\ th[1].chat_id = th[2].chat_id
    /\ th[1].turn # th[2].turn
    /\ Len(conversations[th[1].chat_id].messages) = 2
    /\ \A t \in Threads : \E k \in 1..2 : conversations[th[1].chat_id].messages[k] = th[t].turn

----------------------------------------------------------------------------
\* The provider call of a task is in flight.
WaitsOnProvider(t) == task[t].pc \in {"initial_wait", "final_wait", "retry_wait"}
InProgress(t) == task[t].pc \notin {"idle", "done"}

\* C20: while one turn waits for a provider call to return, another turn in
\* progress in the same process can take a step.
C20_TurnsDoNotBlock ==
    \A t1, t2 \in Tasks :
        (t1 # t2 /\ WaitsOnProvider(t1) /\ InProgress(t2)) => ENABLED TaskNext(t2)

----------------------------------------------------------------------------
\* C21: when the client goes away after a text event, the store still gets
\* the turn: it holds the user message and then the assistant reply of the
\* interrupted turn under the turn's chat id.
C21_InterruptedTurnStored ==
    pc = "closed" =>
        LET stored == get_messages(conversations, now, chat_id, 20)
        IN \E i \in 1..(Len(stored) - 1) :
              /\ stored[i] = user_turn(req.message)
              /\ stored[i + 1].role = "assistant"
              /\ stored[i + 1].content # <<>>

----------------------------------------------------------------------------
\* The entry the specification describes for result number i: its number,
\* title, at most 300 characters of extract, an ellipsis exactly when the
\* extract is longer, and its url.
ExpectedEntry(i, result) ==
    <<ToString(i), result.title, "Summary:",
      [shown |-> IF result.extract <= 300 THEN result.extract ELSE 300]>>
      \o (IF result.extract > 300 THEN <<"...">> ELSE <<>>)
      \o <<"URL:", result.url>>

RECURSIVE ExpectedEntries(_, _)
ExpectedEntries(results, n) ==
    IF n = 0 THEN <<>> ELSE ExpectedEntries(results, n - 1) \o ExpectedEntry(n, results[n])

ExpectedBlock(results) ==
    IF Len(results) = 0 THEN <<"No Wikipedia articles found for this query.">>
    ELSE <<"Wikipedia Search Results:">> \o ExpectedEntries(results, Len(results))

\* The blocks of the lookups made before call k, in the order they were made.
RECURSIVE ExpectedContext(_)
ExpectedContext(k) ==
    IF k = 0 THEN <<>>
    ELSE ExpectedContext(k - 1)
           \o (IF io[k].op = "search"
                 THEN ExpectedBlock(search(io[k].answers).results) \o <<"\n">>
                 ELSE <<>>)

ContextOf(k) == io[k].params.messages[Len(io[k].params.messages)].content

\* C22: every final provider call carries, between the context heading and
\* the closing instruction, the rendered blocks of the lookups of the turn in
\* order: the no-results sentence for an empty result list, otherwise one
\* entry per result numbered from 1 with title, extract cut to 300 characters,
\* an ellipsis exactly when the extract is longer than 300, and the url.
C22_RenderedContext ==
    \A k \in FinalCalls :
        LET body == ExpectedContext(k - 1)
        IN ContextOf(k) =
             <<"Relevant information from Wikipedia (use as context):">>
               \o SubSeq(body, 1, Len(body) - 1)
               \o <<"Please answer the user's last question directly using this context. Do not call any tools.">>

\* A final call after a lookup with extracts of 301 and 300 characters, and
\* one after a lookup whose second hit has no extract and one without results.
C22_CutAndUncut ==
    \E k \in FinalCalls :
        /\ \E j \in Lookups : j < k /\ io[j].answers = TwoArticles
        /\ \E j \in Lookups : j < k /\ search(io[j].answers).results = <<>>

----------------------------------------------------------------------------
\* C23: the lookup session is constructed at most once while none has been
\* closed (later searches reuse it), and once the shutdown handler has run no
\* lookup session is open.
C23_SessionClosedAtShutdown ==
    /\ created <= 1
    /\ shut => session # "open"

----------------------------------------------------------------------------
\* C24: a completion request that has been answered got status 200 with an
\* output, or 400 or 500 with a detail; when a ValueError was raised while
\* the completion was produced the status is 400, and on every other
\* failure it is 500.
C24_StatusOfFailure ==
    completion.pc = "responded" =>
        /\ completion.status \in {200, 400, 500}
        /\ completion.status = 200 => completion.raised = "" /\ completion.output # <<>>
        /\ completion.status # 200 => completion.detail # <<>>
        /\ completion.raised = "ValueError" => completion.status = 400
        /\ completion.raised \in {"ApiError", "AttributeError", "ValidationError"} =>
              completion.status = 500

----------------------------------------------------------------------------
\* The provider calls built by _build_chat_params alone: the final call and
\* its retry carry tool_choice "none".
InitialCalls == {k \in ChatCalls : io[k].params.tool_choice = None}

\* C25: once a turn is past its initial stage the initial provider call has
\* been made exactly once, as the first call of the turn; it carries the
\* lookup-tool definition exactly when the request enables tool use, and
\* its messages start with the system primer exactly when it does.
C25_InitialCall ==
    /\ Cardinality(InitialCalls) <= 1
    /\ pc \notin {"idle", "start", "initial"} =>
          /\ InitialCalls = {1}
          /\ io[1].params.tools <=> req.use_wikipedia
          /\ io[1].params.messages[1] = Primer <=> req.use_wikipedia
          /\ io[1].params.messages[Len(io[1].params.messages)] = user_turn(req.message)

\* A tool-enabled turn that ended after a lookup and a retried final call.
C25_AfterRetriedFinalCall ==
    /\ Ended
    /\ req.use_wikipedia
    /\ Lookups # {}
    /\ Cardinality(FinalCalls) = 2

----------------------------------------------------------------------------
\* C26: every call of search has a non-empty query and a limit from 1 to 5,
\* and every tool event carries a non-empty query.
C26_SearchContract ==
    /\ \A k \in Lookups : io[k].query # "" /\ io[k].limit \in 1..5
    /\ \A i \in Indexes(events, {"tool"}) : events[i].query # ""

----------------------------------------------------------------------------
\* C27: the list get_messages returned is a snapshot.  A later add_message
\* leaves what the client holds as it was returned, and a change the client
\* makes to its list leaves the store as it is.
C27_Snapshot ==
    [][/\ AddStep /\ held.kind # "none" => held'.seen = held.seen
       /\ calls' = calls /\ held'.seen # held.seen => conversations' = conversations]_vars

----------------------------------------------------------------------------
\* C28 as stated: the provider is called at most twice within one turn.
C28_AtMostTwoCalls == Cardinality(ChatCalls) <= 2

\* C28: the provider is called at most three times within one turn: the
\* initial call, the final call and one retry of the final call; a third
\* call is made only after the final call failed, and at most two calls of
\* a turn succeed.
C28_AtMostThreeCalls ==
    /\ Cardinality(ChatCalls) <= 3
    /\ Cardinality(ChatCalls) = 3 =>
          \E k \in FinalCalls : ~io[k].ok /\ \E j \in FinalCalls : j > k
    /\ Cardinality({k \in ChatCalls : io[k].ok}) <= 2

\* A turn that ended in error after the final call and its retry both failed.
C28_ThreeCallsMade ==
    /\ EndedWith("error")
    /\ Cardinality(ChatCalls) = 3
    /\ \A k \in FinalCalls : ~io[k].ok

----------------------------------------------------------------------------
\* C29: in a turn whose request has tool use disabled there is no tool
\* event and no lookup, and the provider is called once: never more than
\* once, and exactly once when the turn has ended.
C29_ToolsDisabled ==
    ~req.use_wikipedia =>
        /\ Indexes(events, {"tool"}) = {}
        /\ Lookups = {}
        /\ Cardinality(ChatCalls) <= 1
        /\ Ended => Cardinality(ChatCalls) = 1

----------------------------------------------------------------------------
\* C30: when add_message is called for an id whose record is past its ttl
\* and has not been swept, a get_messages that follows returns the appended
\* turn only, none of the turns stored before.
C30_StaleTurnsGone ==
    [][\A id \in StoreIds :
          (/\ AddStep
           /\ calls'[Len(calls')].chat_id = id
           /\ id \in DOMAIN conversations
           /\ Expired(conversations, id))
            => get_messages(conversations', now', id, 20) = <<TurnOf(calls'[Len(calls')])>>]_vars

----------------------------------------------------------------------------
\* C31: a get_messages call leaves in the store exactly the records that
\* are not past their ttl, each with the messages and last_updated it had;
\* it removes only whole expired records and creates no record.
C31_ReadFrame ==
    [][GetStep =>
         /\ DOMAIN conversations' =
              {id \in DOMAIN conversations : ~Expired(conversations, id)}
         /\ \A id \in DOMAIN conversations' : conversations'[id] = conversations[id]]_vars

\* A read found c1's record; time passed; a read of the unknown id c2 then
\* swept c1's record and created nothing.
C31_UnknownIdReadSweeps ==
    /\ Len(calls) = 2
    /\ calls[1].op = "get" /\ calls[1].chat_id = "c1" /\ calls[1].stored # <<>>
    /\ calls[2].op = "get" /\ calls[2].chat_id = "c2" /\ ~calls[2].present
    /\ conversations = <<>>

----------------------------------------------------------------------------
\* C32: once the chat_id event is out it is the turn's only one, it came
\* before every provider call and lookup, and it carries the id of the
\* request when the request supplies one, whatever string that is, and a
\* newly minted id when the request supplies none; the turn's id stays
\* that one.
C32_ChatIdResolved ==
    events # <<>> =>
        /\ Indexes(events, {"chat_id"}) = {1}
        /\ \A k \in 1..Len(io) : io[k].at >= 1
        /\ chat_id = events[1].chat_id
        /\ req.chat_id # None => events[1].chat_id = req.chat_id[1]
        /\ req.chat_id = None => events[1].chat_id = Uuid(uuids)

====
